---------------------------- MODULE Spec2Model ----------------------------
(***************************************************************************)
(* Model of the HD-key extension of the go-ethereum keystore               *)
(* (_assets/patches/geth/0000-accounts-hd-keys.patch): key derivation from *)
(* an extended key, the encrypted key record (encryptedKeyJSONV3) with its *)
(* derivation-root blob and sub-account index, and the KeyStore operations *)
(* ImportExtendedKey, ImportECDSA, IncSubAccountIndex, Update and          *)
(* AccountDecryptedKey.                                                    *)
(*                                                                         *)
(* Data abstraction.  A byte is a number 0..7 and a byte string a sequence *)
(* of bytes.  scrypt and Keccak256 are idealised as injective functions    *)
(* (no collisions); AES-CTR is the XOR of the data with a key stream that  *)
(* depends on the cipher key, the IV and the position.  Hex encoding of    *)
(* the blob fields is left out: a blob holds the bytes themselves.         *)
(***************************************************************************)
EXTENDS Integers, Sequences, FiniteSets, TLC

(***************************************************************************)
(* Bounds of the model.                                                    *)
(***************************************************************************)
MaxSeed == 1
MaxPass == 2
MaxEntropy == 1
MaxVaultEntropy == 0
MaxId == 1
MaxIndex == 2
MaxFiles == 2
MaxTopics == 2
MaxStarts == 2

Seeds == 1..MaxSeed
Passphrases == 1..MaxPass
Entropy == 0..MaxEntropy
VaultEntropy == 0..MaxVaultEntropy
Ids == 1..MaxId
Callers == {"c1", "c2"}

\* a byte of the model has three bits
ByteMod == 2 ^ 3

(***************************************************************************)
(* extkeys.ExtendedKey.  NilKey is the Go nil pointer, ZeroedKey the value *)
(* &ExtendedKey{} that serialises to EmptyExtendedKeyString.               *)
(***************************************************************************)
NilKey == [seed |-> -1, depth |-> -1, index |-> -1]

ZeroedKey == [seed |-> 0, depth |-> 0, index |-> 0]

EmptyExtendedKeyString == <<0>>

BIP44Depth == 5

MasterKeys == {[seed |-> s, depth |-> 0, index |-> 0] : s \in Seeds \cup {MaxSeed + 1}}

ChildKeys == {[seed |-> s, depth |-> BIP44Depth, index |-> i] : s \in Seeds, i \in {0, 1}}

\* the master key whose hardened child derivation fails
BadMaster == [seed |-> MaxSeed + 1, depth |-> 0, index |-> 0]

\* extKey.BIP44Child(extkeys.CoinTypeETH, i): [err, key]
BIP44Child(extKey, i) ==
  IF extKey = BadMaster
    THEN [err |-> "ErrDerive", key |-> NilKey]
    ELSE [err |-> "nil", key |-> [seed |-> extKey.seed, depth |-> BIP44Depth, index |-> i]]

IsZeroed(k) == k = ZeroedKey

\* extKey.String()
String(k) == IF IsZeroed(k) THEN EmptyExtendedKeyString ELSE <<k.seed, k.depth, k.index>>

\* extkeys.NewKeyFromString: [err, key]
NewKeyFromString(s) ==
  IF s = EmptyExtendedKeyString \/ Len(s) = 0
    THEN [err |-> "nil", key |-> ZeroedKey]
    ELSE IF Len(s) = 3 /\ s[1] >= 1 /\ s[2] \in {0, BIP44Depth} /\ s[3] \in {0, 1}
      THEN [err |-> "nil", key |-> [seed |-> s[1], depth |-> s[2], index |-> s[3]]]
      ELSE [err |-> "ErrParse", key |-> NilKey]

(***************************************************************************)
(* ecdsa keys.  A private key is its scalar D > 0; NilPriv is the nil      *)
(* pointer and ZeroedPriv a key whose D was overwritten by zeroKey.        *)
(***************************************************************************)
NilPriv == -1

ZeroedPriv == 0

\* extChild1.ToECDSA()
ToECDSA(k) == (k.seed - 1) * 2 + k.index + 1

PrivKeys == {ToECDSA(k) : k \in ChildKeys}

\* crypto.PubkeyToAddress(privateKeyECDSA.PublicKey)
PubkeyToAddress(d) == 10 + d

Addresses == {PubkeyToAddress(d) : d \in PrivKeys}

\* math.PaddedBigBytes(key.PrivateKey.D, 32) and crypto.ToECDSAUnsafe
PaddedBigBytes(d) == <<d % ByteMod>>

ToECDSAUnsafe(b) == b[1]

zeroKey(k) == IF k = NilPriv THEN NilPriv ELSE ZeroedPriv

(***************************************************************************)
(* Key (key.go) and its constructors.                                      *)
(***************************************************************************)
NoKey == [Id |-> 0, Address |-> 0, PrivateKey |-> NilPriv, ExtendedKey |-> NilKey,
          SubAccountIndex |-> 0]

newKeyFromECDSA(priv, id) ==
  [Id |-> id, Address |-> PubkeyToAddress(priv), PrivateKey |-> priv,
   ExtendedKey |-> NilKey, SubAccountIndex |-> 0]

\* mutant: the derivation root is taken from child 0, like the account key
newKeyFromExtendedKey_sameChild(extKey, id) ==
  LET c1 == IF extKey.depth = 0 THEN BIP44Child(extKey, 0) ELSE [err |-> "nil", key |-> extKey]
  IN IF c1.err # "nil" THEN [err |-> c1.err, key |-> NoKey]
     ELSE LET privateKeyECDSA == ToECDSA(c1.key)
          IN [err |-> "nil",
              key |-> [Id |-> id, Address |-> PubkeyToAddress(privateKeyECDSA),
                       PrivateKey |-> privateKeyECDSA, ExtendedKey |-> c1.key,
                       SubAccountIndex |-> 0]]

\* [err, key]; on error the returned key is &Key{}
newKeyFromExtendedKey(extKey, id) ==
  LET c1 == IF extKey.depth = 0 THEN BIP44Child(extKey, 0) ELSE [err |-> "nil", key |-> extKey]
      c2 == IF extKey.depth = 0 THEN BIP44Child(extKey, 1) ELSE [err |-> "nil", key |-> extKey]
  IN IF c1.err # "nil" THEN [err |-> c1.err, key |-> NoKey]
     ELSE IF c2.err # "nil" THEN [err |-> c2.err, key |-> NoKey]
     ELSE LET privateKeyECDSA == ToECDSA(c1.key)
          IN [err |-> "nil",
              key |-> [Id |-> id, Address |-> PubkeyToAddress(privateKeyECDSA),
                       PrivateKey |-> privateKeyECDSA, ExtendedKey |-> c2.key,
                       SubAccountIndex |-> 0]]

(***************************************************************************)
(* Cryptographic primitives.                                               *)
(***************************************************************************)
RECURSIVE Xor(_, _)
Xor(a, b) == IF a = 0 /\ b = 0 THEN 0
             ELSE ((a + b) % 2) + 2 * Xor(a \div 2, b \div 2)

\* scrypt.Key(auth, salt, ...): derivedKey[:16] and derivedKey[16:32]
scryptKey(auth, salt) == [enc |-> (3 * auth + 5 * salt + 1) % ByteMod, mac |-> <<auth, salt>>]

aesCTRXOR(key, inText, iv) ==
  [i \in 1..Len(inText) |-> Xor(inText[i], (key + 3 * iv + i) % ByteMod)]

Keccak256(macKey, cipherText) == <<macKey, cipherText>>

(***************************************************************************)
(* cryptoJSON and the encrypted record.                                    *)
(***************************************************************************)
version == 3

\* cryptoJSON{}
EmptyBlob == [Cipher |-> "", CipherText |-> <<>>, IV |-> -1, KDF |-> "", Salt |-> -1,
              MAC |-> <<>>]

encryptBytes(keyBytes, auth, salt, iv) ==
  LET derivedKey == scryptKey(auth, salt)
      cipherText == aesCTRXOR(derivedKey.enc, keyBytes, iv)
  IN [Cipher |-> "aes-128-ctr", CipherText |-> cipherText, IV |-> iv, KDF |-> "scrypt",
      Salt |-> salt, MAC |-> Keccak256(derivedKey.mac, cipherText)]

\* mutant: the IV written to the blob is not the one the cipher ran with
EncryptExtendedKey_wrongIV(extKey, auth, salt, iv) ==
  IF extKey = NilKey THEN EmptyBlob
  ELSE [encryptBytes(String(extKey), auth, salt, iv) EXCEPT !.IV = iv + 1]

EncryptExtendedKey(extKey, auth, salt, iv) ==
  IF extKey = NilKey THEN EmptyBlob
  ELSE encryptBytes(String(extKey), auth, salt, iv)

\* rnd: the four draws of randentropy.GetEntropyCSPRNG in one EncryptKey call
Rnd == [s1 : Entropy, iv1 : Entropy, s2 : Entropy, iv2 : Entropy]

\* the draws the key store runs take
VaultRnd == [s1 : VaultEntropy, iv1 : VaultEntropy, s2 : VaultEntropy, iv2 : VaultEntropy]

\* mutant: every record written gets another id than the key's
EncryptKey_freshId(key, auth, rnd) ==
  [Address |-> key.Address,
   Crypto |-> encryptBytes(PaddedBigBytes(key.PrivateKey), auth, rnd.s1, rnd.iv1),
   Id |-> key.Id + 1,
   Version |-> version,
   ExtendedKey |-> EncryptExtendedKey(key.ExtendedKey, auth, rnd.s2, rnd.iv2),
   SubAccountIndex |-> key.SubAccountIndex]

EncryptKey(key, auth, rnd) ==
  [Address |-> key.Address,
   Crypto |-> encryptBytes(PaddedBigBytes(key.PrivateKey), auth, rnd.s1, rnd.iv1),
   Id |-> key.Id,
   Version |-> version,
   ExtendedKey |-> EncryptExtendedKey(key.ExtendedKey, auth, rnd.s2, rnd.iv2),
   SubAccountIndex |-> key.SubAccountIndex]

\* shared tail of decryptKeyV3 and decryptExtendedKey: [err, plain]
decryptBlob(blob, auth) ==
  LET derivedKey == scryptKey(auth, blob.Salt)
      calculatedMAC == Keccak256(derivedKey.mac, blob.CipherText)
  IN IF calculatedMAC # blob.MAC THEN [err |-> "ErrDecrypt", plain |-> <<>>]
     ELSE [err |-> "nil", plain |-> aesCTRXOR(derivedKey.enc, blob.CipherText, blob.IV)]

decryptKeyV3(k, auth) ==
  IF k.Version # version THEN [err |-> "ErrVersion", plain |-> <<>>]
  ELSE IF k.Crypto.Cipher # "aes-128-ctr" THEN [err |-> "ErrCipher", plain |-> <<>>]
  ELSE decryptBlob(k.Crypto, auth)

\* the version of the records written before extended keys were stored
legacyVersion == 1

\* the record the legacy writer made of a key: no extendedkey and no
\* subaccountindex field (absent fields read as the empty blob and as -1)
EncryptKeyV1(key, auth, rnd) ==
  [Address |-> key.Address,
   Crypto |-> encryptBytes(PaddedBigBytes(key.PrivateKey), auth, rnd.s1, rnd.iv1),
   Id |-> key.Id,
   Version |-> legacyVersion,
   ExtendedKey |-> EmptyBlob,
   SubAccountIndex |-> -1]

\* decryptKeyV1(k, auth): MAC check, then decryption of the primary key
decryptKeyV1(k, auth) == decryptBlob(k.Crypto, auth)

\* mutant: the version check comes before the empty-blob shortcut
decryptExtendedKey_checksFirst(keyProtected, auth) ==
  IF keyProtected.Version # version THEN [err |-> "ErrVersion", plain |-> <<>>]
  ELSE IF Len(keyProtected.ExtendedKey.CipherText) = 0
    THEN [err |-> "nil", plain |-> EmptyExtendedKeyString]
  ELSE IF keyProtected.ExtendedKey.Cipher # "aes-128-ctr"
    THEN [err |-> "ErrCipher", plain |-> <<>>]
  ELSE decryptBlob(keyProtected.ExtendedKey, auth)

\* mutant: the MAC is not compared
decryptExtendedKey_noMAC(keyProtected, auth) ==
  IF Len(keyProtected.ExtendedKey.CipherText) = 0
    THEN [err |-> "nil", plain |-> EmptyExtendedKeyString]
  ELSE IF keyProtected.Version # version THEN [err |-> "ErrVersion", plain |-> <<>>]
  ELSE IF keyProtected.ExtendedKey.Cipher # "aes-128-ctr"
    THEN [err |-> "ErrCipher", plain |-> <<>>]
  ELSE LET derivedKey == scryptKey(auth, keyProtected.ExtendedKey.Salt)
       IN [err |-> "nil",
           plain |-> aesCTRXOR(derivedKey.enc, keyProtected.ExtendedKey.CipherText,
                               keyProtected.ExtendedKey.IV)]

decryptExtendedKey(keyProtected, auth) ==
  IF Len(keyProtected.ExtendedKey.CipherText) = 0
    THEN [err |-> "nil", plain |-> EmptyExtendedKeyString]
  ELSE IF keyProtected.Version # version THEN [err |-> "ErrVersion", plain |-> <<>>]
  ELSE IF keyProtected.ExtendedKey.Cipher # "aes-128-ctr"
    THEN [err |-> "ErrCipher", plain |-> <<>>]
  ELSE decryptBlob(keyProtected.ExtendedKey, auth)

\* uint32(subAccountIndex), with 0 when the field is absent or not a number.
\* The wrap of uint32 at 2^32 lies outside the indices the model reaches
\* (IncSubAccountIndex is capped at MaxIndex) and outside TLC's integers.
\* mutant: the persisted index is not read back
subAccountIndexOf_ignored(m) == 0

\* mutant: an absent field is not replaced by 0
subAccountIndexOf_noDefault(m) == m.SubAccountIndex

subAccountIndexOf(m) == IF m.SubAccountIndex \in Nat THEN m.SubAccountIndex ELSE 0

\* [err, key]; key is NoKey (nil) on every error
DecryptKey(keyjson, auth) ==
  LET subAccountIndex == subAccountIndexOf(keyjson)
      legacy == keyjson.Version = legacyVersion
      p == IF legacy THEN decryptKeyV1(keyjson, auth) ELSE decryptKeyV3(keyjson, auth)
      e == IF legacy THEN [err |-> "nil", plain |-> EmptyExtendedKeyString]
           ELSE decryptExtendedKey(keyjson, auth)
      x == NewKeyFromString(e.plain)
  IN IF p.err # "nil" THEN [err |-> p.err, key |-> NoKey]
     ELSE IF e.err # "nil" THEN [err |-> e.err, key |-> NoKey]
     ELSE IF x.err # "nil" THEN [err |-> x.err, key |-> NoKey]
     ELSE LET key == ToECDSAUnsafe(p.plain)
          IN [err |-> "nil",
              key |-> [Id |-> keyjson.Id, Address |-> PubkeyToAddress(key),
                       PrivateKey |-> key, ExtendedKey |-> x.key,
                       SubAccountIndex |-> subAccountIndex]]

(***************************************************************************)
(* The key store: the key directory (storage), the address cache and the   *)
(* callers of the KeyStore methods.                                        *)
(***************************************************************************)
VARIABLES
  store,   \* the key directory: path -> encryptedKeyJSONV3
  cache,   \* ks.cache: the set of accounts.Account it holds
  pc,      \* per caller: where its current KeyStore call stands
  loc,     \* per caller: the locals of its current call (a, key, passphrase)
  last,    \* the step just taken and what it returned
  hist,    \* history: did calls overlap; successful increments per file
  cx,      \* the record under test of the encryption engine (SpecCrypto)
  mu,      \* ks.cache.mu and what its holders have done (SpecCache)
  reg      \* the Register of topic_register.go (SpecRegister)

vars == <<store, cache, pc, loc, last, hist, cx, mu, reg>>

NoResult == [err |-> "nil", key |-> NoKey]

NoPlain == [err |-> "nil", plain |-> <<>>]

NoCx == [phase |-> "off", key |-> NoKey, auth |-> 0, json |-> EncryptKey(NoKey, 0, [s1 |-> 0, iv1 |-> 0, s2 |-> 0, iv2 |-> 0]),
         damage |-> "none", auth2 |-> 0, res |-> NoResult, ext |-> NoPlain]

\* accounts.Account{}
EmptyAccount == [Address |-> 0, Path |-> <<>>]

Paths == {<<ad, n>> : ad \in Addresses, n \in 1..MaxFiles}

FilesOf(st, addr) == {p \in DOMAIN st : p[1] = addr}

\* ks.storage.JoinPath(keyFileName(key.Address)): the time stamp in the name
\* makes it a name no earlier import of the address has used
keyFileName(st, addr) == <<addr, Cardinality(FilesOf(st, addr)) + 1>>

\* the accounts a scan of the key directory finds
scanAccounts(st) == {[Address |-> st[p].Address, Path |-> p] : p \in DOMAIN st}

\* ks.cache.maybeReload()
maybeReload(ca, st) == IF ca # scanAccounts(st) THEN scanAccounts(st) ELSE ca

\* ks.cache.hasAddress(addr)
hasAddress(ca, addr) == \E a \in ca : a.Address = addr

\* ks.cache.find(a): [err, a]
find(ca, a) ==
  LET matches == {m \in ca : m.Address = a.Address}
  IN IF a.Path # <<>> /\ a \in matches THEN [err |-> "nil", a |-> a]
     ELSE IF Cardinality(matches) = 1 THEN [err |-> "nil", a |-> CHOOSE m \in matches : TRUE]
     ELSE IF matches = {} THEN [err |-> "ErrNoMatch", a |-> EmptyAccount]
     ELSE [err |-> "ErrAmbiguousAddr", a |-> EmptyAccount]

\* ks.storage.GetKey(a.Address, a.URL.Path, auth): [err, key]
GetKey(st, addr, path, auth) ==
  IF path \notin DOMAIN st THEN [err |-> "ErrNoFile", key |-> NoKey]
  ELSE LET r == DecryptKey(st[path], auth)
       IN IF r.err # "nil" THEN r
          ELSE IF r.key.Address # addr THEN [err |-> "ErrMismatch", key |-> NoKey]
          ELSE r

\* ks.getDecryptedKey(a, auth): ks.Find(a), then ks.storage.GetKey: [err, a, key]
getDecryptedKey(ca, st, a, auth) ==
  LET f == find(maybeReload(ca, st), a)
      g == GetKey(st, f.a.Address, f.a.Path, auth)
  IN IF f.err # "nil" THEN [err |-> f.err, a |-> f.a, key |-> NoKey]
     ELSE [err |-> g.err, a |-> f.a, key |-> g.key]

\* the file ks.storage.StoreKey(path, key, auth) writes
StoreKey(st, path, key, auth, rnd) ==
  [p \in DOMAIN st \cup {path} |-> IF p = path THEN EncryptKey(key, auth, rnd) ELSE st[p]]

\* the accounts a caller may name: by address alone, or as the cache holds them
AccountArgs == {[Address |-> ad, Path |-> <<>>] : ad \in Addresses} \cup cache

NoLoc == [op |-> "none", a |-> EmptyAccount, key |-> NoKey, ext |-> NilKey, auth |-> 0,
          auth0 |-> 0]

\* what a step shows: the method, its caller, the error and account it returned
\* (op ends in ".call" while the method has not returned), the Key the method
\* held when the step ended, its arguments, and whether the step wrote the key
\* directory (stored: StoreKey wrote a file; changed: the directory differs)
\* or the cache
Step(op, c, err, a, key, ext, auth, auth0, stored) ==
  [op |-> op, err |-> err, a |-> a, key |-> key, ext |-> ext, auth |-> auth,
   auth0 |-> auth0, stored |-> stored, changed |-> store' # store,
   cacheChanged |-> cache' # cache]

\* callers that serialise their calls begin one only when no other call is running
MayBegin(c) == hist.mode = "race" \/ \A d \in Callers \ {c} : pc[d] = "idle"

Overlap(c) == hist.overlapped \/ \E d \in Callers \ {c} : pc[d] # "idle"

\* the history after a step of caller c that completed an increment of the files
\* incd; the increments are counted as long as no calls have overlapped
Hist(c, incd) ==
  [mode |-> hist.mode, overlapped |-> Overlap(c),
   incs |-> [p \in DOMAIN store' |->
               IF Overlap(c) THEN 0
               ELSE IF p \in incd THEN hist.incs[p] + 1
               ELSE IF p \in DOMAIN store THEN hist.incs[p] ELSE 0]]

Zeroed(key) == [key EXCEPT !.PrivateKey = zeroKey(@)]

\* ks.cache.mu unlocked
NoMu == [holder |-> "none", reloaded |-> [c \in Callers |-> FALSE],
         err |-> [c \in Callers |-> "nil"]]

\* &Register{topics: topics} of no topics
NoReg == [topics |-> <<>>, quit |-> 0, made |-> 0, closed |-> {}, wg |-> 0, gor |-> <<>>,
          stop |-> [c \in Callers |-> "idle"], panicked |-> FALSE,
          ev |-> [op |-> "none", how |-> "", err |-> "nil"]]

InitIn(mode) ==
  /\ store = <<>>
  /\ cache = {}
  /\ pc = [c \in Callers |-> "idle"]
  /\ loc = [c \in Callers |-> NoLoc]
  /\ last = [op |-> "none", err |-> "nil", a |-> EmptyAccount, key |-> NoKey,
             ext |-> NilKey, auth |-> 0, auth0 |-> 0, stored |-> FALSE,
             changed |-> FALSE, cacheChanged |-> FALSE]
  /\ hist = [mode |-> mode, overlapped |-> FALSE, incs |-> <<>>]
  /\ cx = NoCx
  /\ mu = NoMu
  /\ reg = NoReg

\* the callers serialise their calls
Init == InitIn("serial")

\* the callers do not: calls of different callers overlap
InitRace == InitIn("race")

(***************************************************************************)
(* KeyStore.ImportExtendedKey up to its call of importKey.                 *)
(***************************************************************************)
ImportExtendedKeyIf(c, extKey, passphrase, id, imported) ==
  /\ pc[c] = "idle"
  /\ MayBegin(c)
  /\ LET r == newKeyFromExtendedKey(extKey, id)
         key == r.key
         reloaded == maybeReload(cache, store)
         f == find(reloaded, [Address |-> key.Address, Path |-> <<>>])
     IN IF r.err # "nil"
          THEN \* zeroKey(key.PrivateKey); return accounts.Account{}, err
               /\ UNCHANGED <<store, cache, pc, loc>>
               /\ last' = Step("ImportExtendedKey", c, r.err, EmptyAccount, Zeroed(key),
                               extKey, passphrase, passphrase, FALSE)
          ELSE IF imported
            THEN \* account is already imported, return cached version
                 /\ cache' = reloaded
                 /\ UNCHANGED <<store, pc, loc>>
                 /\ last' = IF f.err # "nil"
                              THEN Step("ImportExtendedKey", c, f.err, f.a, Zeroed(key),
                                        extKey, passphrase, passphrase, FALSE)
                              ELSE Step("ImportExtendedKey", c, "nil", f.a, key,
                                        extKey, passphrase, passphrase, FALSE)
            ELSE /\ cache' = reloaded
                 /\ pc' = [pc EXCEPT ![c] = "importKey"]
                 /\ loc' = [loc EXCEPT ![c] = [op |-> "ImportExtendedKey", a |-> EmptyAccount,
                                              key |-> key, ext |-> extKey,
                                              auth |-> passphrase, auth0 |-> passphrase]]
                 /\ UNCHANGED store
                 /\ last' = Step("ImportExtendedKey.call", c, "nil", EmptyAccount, key,
                                 extKey, passphrase, passphrase, FALSE)
  /\ hist' = Hist(c, {})
  /\ UNCHANGED <<cx, mu, reg>>

\* mutant: the cache is not asked whether the address is already imported
ImportExtendedKey_noCacheCheck(c, extKey, passphrase, id) ==
  ImportExtendedKeyIf(c, extKey, passphrase, id, FALSE)

ImportExtendedKey(c, extKey, passphrase, id) ==
  ImportExtendedKeyIf(c, extKey, passphrase, id,
                      hasAddress(maybeReload(cache, store),
                                 newKeyFromExtendedKey(extKey, id).key.Address))

(***************************************************************************)
(* KeyStore.ImportECDSA up to its call of importKey.                       *)
(***************************************************************************)
ImportECDSA(c, priv, passphrase, id) ==
  /\ pc[c] = "idle"
  /\ MayBegin(c)
  /\ LET key == newKeyFromECDSA(priv, id)
         reloaded == maybeReload(cache, store)
     IN IF hasAddress(reloaded, key.Address)
          THEN /\ cache' = reloaded
               /\ UNCHANGED <<store, pc, loc>>
               /\ last' = Step("ImportECDSA", c, "ErrAccountExists", EmptyAccount, key,
                               NilKey, passphrase, passphrase, FALSE)
          ELSE /\ cache' = reloaded
               /\ pc' = [pc EXCEPT ![c] = "importKey"]
               /\ loc' = [loc EXCEPT ![c] = [op |-> "ImportECDSA", a |-> EmptyAccount,
                                            key |-> key, ext |-> NilKey,
                                            auth |-> passphrase, auth0 |-> passphrase]]
               /\ UNCHANGED store
               /\ last' = Step("ImportECDSA.call", c, "nil", EmptyAccount, key,
                               NilKey, passphrase, passphrase, FALSE)
  /\ hist' = Hist(c, {})
  /\ UNCHANGED <<cx, mu, reg>>

(***************************************************************************)
(* KeyStore.importKey: StoreKey, then cache.add.  ok is whether the        *)
(* storage wrote the file.                                                 *)
(***************************************************************************)
importKey(c, ok, rnd) ==
  /\ pc[c] = "importKey"
  /\ LET key == loc[c].key
         a == [Address |-> key.Address, Path |-> keyFileName(store, key.Address)]
     IN /\ a.Path \in Paths
        /\ IF ok
             THEN /\ store' = StoreKey(store, a.Path, key, loc[c].auth, rnd)
                  /\ cache' = cache \cup {a}
                  /\ last' = Step(loc[c].op, c, "nil", a, key, loc[c].ext,
                                  loc[c].auth, loc[c].auth0, TRUE)
             ELSE /\ UNCHANGED <<store, cache>>
                  /\ last' = Step(loc[c].op, c, "ErrStore", EmptyAccount, key, loc[c].ext,
                                  loc[c].auth, loc[c].auth0, FALSE)
  /\ pc' = [pc EXCEPT ![c] = "idle"]
  /\ loc' = [loc EXCEPT ![c] = NoLoc]
  /\ hist' = Hist(c, {})
  /\ UNCHANGED <<cx, mu, reg>>

(***************************************************************************)
(* KeyStore.IncSubAccountIndex: getDecryptedKey, then the increment and    *)
(* StoreKey.                                                               *)
(***************************************************************************)
\* mutant: the index of the file is raised before the passphrase is verified
IncSubAccountIndex_bumpsFirst(c, a, passphrase) ==
  /\ pc[c] = "idle"
  /\ MayBegin(c)
  /\ LET r == getDecryptedKey(cache, store, a, passphrase)
     IN /\ r.key.SubAccountIndex < MaxIndex
        /\ cache' = maybeReload(cache, store)
        /\ store' = IF r.a.Path \in DOMAIN store
                      THEN [store EXCEPT ![r.a.Path].SubAccountIndex = @ + 1]
                      ELSE store
        /\ IF r.err # "nil"
             THEN /\ UNCHANGED <<pc, loc>>
                  /\ last' = Step("IncSubAccountIndex", c, r.err, r.a, r.key, NilKey,
                                  passphrase, passphrase, FALSE)
             ELSE /\ pc' = [pc EXCEPT ![c] = "IncStore"]
                  /\ loc' = [loc EXCEPT ![c] = [op |-> "IncSubAccountIndex", a |-> r.a,
                                               key |-> r.key, ext |-> NilKey,
                                               auth |-> passphrase, auth0 |-> passphrase]]
                  /\ last' = Step("IncSubAccountIndex.call", c, "nil", r.a, r.key, NilKey,
                                  passphrase, passphrase, FALSE)
  /\ hist' = Hist(c, {})
  /\ UNCHANGED <<cx, mu, reg>>

IncSubAccountIndex(c, a, passphrase) ==
  /\ pc[c] = "idle"
  /\ MayBegin(c)
  /\ LET r == getDecryptedKey(cache, store, a, passphrase)
     IN /\ r.key.SubAccountIndex < MaxIndex
        /\ cache' = maybeReload(cache, store)
        /\ UNCHANGED store
        /\ IF r.err # "nil"
             THEN /\ UNCHANGED <<pc, loc>>
                  /\ last' = Step("IncSubAccountIndex", c, r.err, r.a, r.key, NilKey,
                                  passphrase, passphrase, FALSE)
             ELSE /\ pc' = [pc EXCEPT ![c] = "IncStore"]
                  /\ loc' = [loc EXCEPT ![c] = [op |-> "IncSubAccountIndex", a |-> r.a,
                                               key |-> r.key, ext |-> NilKey,
                                               auth |-> passphrase, auth0 |-> passphrase]]
                  /\ last' = Step("IncSubAccountIndex.call", c, "nil", r.a, r.key, NilKey,
                                  passphrase, passphrase, FALSE)
  /\ hist' = Hist(c, {})
  /\ UNCHANGED <<cx, mu, reg>>

IncStoreBy(c, ok, rnd, n) ==
  /\ pc[c] = "IncStore"
  /\ UNCHANGED cache
  /\ LET key == [loc[c].key EXCEPT !.SubAccountIndex = @ + n]
         a == loc[c].a
     IN IF ok
          THEN /\ store' = StoreKey(store, a.Path, key, loc[c].auth, rnd)
               /\ last' = Step("IncSubAccountIndex", c, "nil", a, key, NilKey,
                               loc[c].auth, loc[c].auth0, TRUE)
               /\ hist' = Hist(c, {a.Path})
          ELSE /\ UNCHANGED store
               /\ last' = Step("IncSubAccountIndex", c, "ErrStore", a, key, NilKey,
                               loc[c].auth, loc[c].auth0, FALSE)
               /\ hist' = Hist(c, {})
  /\ pc' = [pc EXCEPT ![c] = "idle"]
  /\ loc' = [loc EXCEPT ![c] = NoLoc]
  /\ UNCHANGED <<cx, mu, reg>>

\* mutant: the index is stored as it was read
IncStore_noIncrement(c, ok, rnd) == IncStoreBy(c, ok, rnd, 0)

\* mutant: the index is raised twice
IncStore_twice(c, ok, rnd) == IncStoreBy(c, ok, rnd, 2)

\* key.SubAccountIndex++, then StoreKey
IncStore(c, ok, rnd) == IncStoreBy(c, ok, rnd, 1)

(***************************************************************************)
(* KeyStore.Update: getDecryptedKey under passphrase, then StoreKey under  *)
(* newPassphrase.                                                          *)
(***************************************************************************)
Update(c, a, passphrase, newPassphrase) ==
  /\ pc[c] = "idle"
  /\ MayBegin(c)
  /\ LET r == getDecryptedKey(cache, store, a, passphrase)
     IN /\ cache' = maybeReload(cache, store)
        /\ UNCHANGED store
        /\ IF r.err # "nil"
             THEN /\ UNCHANGED <<pc, loc>>
                  /\ last' = Step("Update", c, r.err, r.a, r.key, NilKey,
                                  newPassphrase, passphrase, FALSE)
             ELSE /\ pc' = [pc EXCEPT ![c] = "UpdateStore"]
                  /\ loc' = [loc EXCEPT ![c] = [op |-> "Update", a |-> r.a,
                                               key |-> r.key, ext |-> NilKey,
                                               auth |-> newPassphrase,
                                               auth0 |-> passphrase]]
                  /\ last' = Step("Update.call", c, "nil", r.a, r.key, NilKey,
                                  newPassphrase, passphrase, FALSE)
  /\ hist' = Hist(c, {})
  /\ UNCHANGED <<cx, mu, reg>>

UpdateStoreUnder(c, ok, rnd, auth) ==
  /\ pc[c] = "UpdateStore"
  /\ UNCHANGED cache
  /\ LET key == loc[c].key
         a == loc[c].a
     IN IF ok
          THEN /\ store' = StoreKey(store, a.Path, key, auth, rnd)
               /\ last' = Step("Update", c, "nil", a, key, NilKey,
                               loc[c].auth, loc[c].auth0, TRUE)
          ELSE /\ UNCHANGED store
               /\ last' = Step("Update", c, "ErrStore", a, key, NilKey,
                               loc[c].auth, loc[c].auth0, FALSE)
  /\ pc' = [pc EXCEPT ![c] = "idle"]
  /\ loc' = [loc EXCEPT ![c] = NoLoc]
  /\ hist' = Hist(c, {})
  /\ UNCHANGED <<cx, mu, reg>>

\* mutant: the key is stored under the passphrase it was decrypted with
UpdateStore_oldPassphrase(c, ok, rnd) == UpdateStoreUnder(c, ok, rnd, loc[c].auth0)

\* StoreKey(a.URL.Path, key, newPassphrase)
UpdateStore(c, ok, rnd) == UpdateStoreUnder(c, ok, rnd, loc[c].auth)

(***************************************************************************)
(* KeyStore.AccountDecryptedKey: the decrypted key goes to the caller.     *)
(***************************************************************************)
AccountDecryptedKey(c, a, auth) ==
  /\ pc[c] = "idle"
  /\ MayBegin(c)
  /\ LET r == getDecryptedKey(cache, store, a, auth)
     IN /\ cache' = maybeReload(cache, store)
        /\ UNCHANGED store
        /\ last' = Step("AccountDecryptedKey", c, r.err, r.a, r.key, NilKey, auth, auth, FALSE)
  /\ hist' = Hist(c, {})
  /\ UNCHANGED <<pc, loc, cx, mu, reg>>

ExtKeyArgs == MasterKeys \cup ChildKeys

Next ==
  \/ \E c \in Callers, extKey \in ExtKeyArgs, p \in Passphrases, id \in Ids :
        ImportExtendedKey(c, extKey, p, id)
  \/ \E c \in Callers, priv \in PrivKeys, p \in Passphrases, id \in Ids :
        ImportECDSA(c, priv, p, id)
  \/ \E c \in Callers, ok \in BOOLEAN, rnd \in VaultRnd : importKey(c, ok, rnd)
  \/ \E c \in Callers, a \in AccountArgs, p \in Passphrases : IncSubAccountIndex(c, a, p)
  \/ \E c \in Callers, ok \in BOOLEAN, rnd \in VaultRnd : IncStore(c, ok, rnd)
  \/ \E c \in Callers, a \in AccountArgs, p \in Passphrases, q \in Passphrases :
        Update(c, a, p, q)
  \/ \E c \in Callers, ok \in BOOLEAN, rnd \in VaultRnd : UpdateStore(c, ok, rnd)
  \/ \E c \in Callers, a \in AccountArgs, p \in Passphrases : AccountDecryptedKey(c, a, p)

Spec == Init /\ [][Next]_vars

\* overlapping calls on the accounts of the cache, imported from one master key;
\* Update rewrites under the passphrase it read with (Spec explores rotation)
NextRace ==
  \/ \E c \in Callers, extKey \in MasterKeys \ {BadMaster}, p \in Passphrases, id \in Ids :
        ImportExtendedKey(c, extKey, p, id)
  \/ \E c \in Callers, ok \in BOOLEAN, rnd \in VaultRnd : importKey(c, ok, rnd)
  \/ \E c \in Callers, a \in cache, p \in Passphrases : IncSubAccountIndex(c, a, p)
  \/ \E c \in Callers, ok \in BOOLEAN, rnd \in VaultRnd : IncStore(c, ok, rnd)
  \/ \E c \in Callers, a \in cache, p \in Passphrases : Update(c, a, p, p)
  \/ \E c \in Callers, ok \in BOOLEAN, rnd \in VaultRnd : UpdateStore(c, ok, rnd)
  \/ \E c \in Callers, a \in cache, p \in Passphrases : AccountDecryptedKey(c, a, p)

SpecRace == InitRace /\ [][NextRace]_vars


(***************************************************************************)
(* The encryption engine on its own: a Key is encrypted under a            *)
(* passphrase, the record may be damaged on disk, and it is decrypted      *)
(* under a passphrase.                                                     *)
(***************************************************************************)
CryptoExtKeys == {NilKey, ZeroedKey} \cup ChildKeys \cup (MasterKeys \ {BadMaster})

CryptoKeys ==
  {[Id |-> id, Address |-> PubkeyToAddress(d), PrivateKey |-> d, ExtendedKey |-> x,
    SubAccountIndex |-> i] : id \in Ids, d \in PrivKeys, x \in CryptoExtKeys, i \in {0, MaxIndex}}

Damages == {"version", "cipher", "mac", "ciphertext", "primary", "strip"}

\* the record after damage d
Damaged(json, d) ==
  CASE d = "version" -> [json EXCEPT !.Version = version + 1]
    [] d = "cipher" -> [json EXCEPT !.ExtendedKey.Cipher = "aes-256-cbc"]
    [] d = "mac" -> [json EXCEPT !.ExtendedKey.MAC = <<>>]
    [] d = "ciphertext" ->
         [json EXCEPT !.ExtendedKey.CipherText =
            [i \in 1..Len(@) |-> IF i = 1 THEN Xor(@[i], 1) ELSE @[i]]]
    [] d = "primary" -> [json EXCEPT !.Crypto.MAC = <<>>]
    [] d = "strip" -> [json EXCEPT !.ExtendedKey = EmptyBlob]

InitCrypto ==
  /\ store = <<>>
  /\ cache = {}
  /\ pc = [c \in Callers |-> "idle"]
  /\ loc = [c \in Callers |-> NoLoc]
  /\ last = [op |-> "none", err |-> "nil", a |-> EmptyAccount, key |-> NoKey,
             ext |-> NilKey, auth |-> 0, auth0 |-> 0, stored |-> FALSE,
             changed |-> FALSE, cacheChanged |-> FALSE]
  /\ hist = [mode |-> "serial", overlapped |-> FALSE, incs |-> <<>>]
  /\ \E key \in CryptoKeys, auth \in Passphrases :
        cx = [NoCx EXCEPT !.phase = "input", !.key = key, !.auth = auth]
  /\ mu = NoMu
  /\ reg = NoReg

CryptoEncrypt(rnd) ==
  /\ cx.phase = "input"
  /\ cx' = [cx EXCEPT !.phase = "encrypted", !.json = EncryptKey(cx.key, cx.auth, rnd)]
  /\ UNCHANGED <<store, cache, pc, loc, last, hist, mu, reg>>

\* a record of the legacy writer, which knew no extended keys
CryptoEncryptLegacy(rnd) ==
  /\ cx.phase = "input"
  /\ cx.key.ExtendedKey = NilKey
  /\ cx.key.SubAccountIndex = 0
  /\ cx' = [cx EXCEPT !.phase = "encrypted", !.json = EncryptKeyV1(cx.key, cx.auth, rnd)]
  /\ UNCHANGED <<store, cache, pc, loc, last, hist, mu, reg>>

CryptoDamage(d) ==
  /\ cx.phase = "encrypted"
  /\ cx.damage = "none"
  /\ cx' = [cx EXCEPT !.damage = d, !.json = Damaged(cx.json, d)]
  /\ UNCHANGED <<store, cache, pc, loc, last, hist, mu, reg>>

CryptoDecrypt(auth2) ==
  /\ cx.phase = "encrypted"
  /\ cx' = [cx EXCEPT !.phase = "decrypted", !.auth2 = auth2,
                      !.res = DecryptKey(cx.json, auth2),
                      !.ext = decryptExtendedKey(cx.json, auth2)]
  /\ UNCHANGED <<store, cache, pc, loc, last, hist, mu, reg>>

NextCrypto ==
  \/ \E rnd \in Rnd : CryptoEncrypt(rnd)
  \/ \E rnd \in Rnd : CryptoEncryptLegacy(rnd)
  \/ \E d \in Damages : CryptoDamage(d)
  \/ \E auth2 \in Passphrases : CryptoDecrypt(auth2)

SpecCrypto == InitCrypto /\ [][NextCrypto]_vars


(***************************************************************************)
(* KeyStore.ImportExtendedKey statement by statement, with the mutex       *)
(* ks.cache.mu.  mu.holder is the caller holding the mutex; hasAddress,    *)
(* maybeReload and the cache.add of importKey take and release it inside   *)
(* and so run only when it is free.  mu.reloaded[c] tells that caller c    *)
(* has run maybeReload in its current call; mu.err[c] is what find gave.   *)
(* Key files may be removed from the key directory behind the cache.       *)
(***************************************************************************)
InitCache == InitIn("race")

\* key, err := newKeyFromExtendedKey(extKey)
ImportBegin(c, extKey, passphrase, id) ==
  /\ pc[c] = "idle"
  /\ UNCHANGED <<store, cache, hist, cx, reg>>
  /\ LET r == newKeyFromExtendedKey(extKey, id)
     IN IF r.err # "nil"
          THEN /\ UNCHANGED <<pc, loc>>
               /\ last' = Step("ImportExtendedKey", c, r.err, EmptyAccount, Zeroed(r.key),
                               extKey, passphrase, passphrase, FALSE)
          ELSE /\ pc' = [pc EXCEPT ![c] = "hasAddress"]
               /\ loc' = [loc EXCEPT ![c] = [op |-> "ImportExtendedKey",
                                            a |-> [Address |-> r.key.Address, Path |-> <<>>],
                                            key |-> r.key, ext |-> extKey,
                                            auth |-> passphrase, auth0 |-> passphrase]]
               /\ last' = Step("ImportExtendedKey.call", c, "nil", EmptyAccount, r.key,
                               extKey, passphrase, passphrase, FALSE)
  /\ mu' = [mu EXCEPT !.reloaded[c] = FALSE, !.err[c] = "nil"]

\* if ks.cache.hasAddress(key.Address): reloads the cache if stale, then reads it
ImportHasAddress(c) ==
  /\ pc[c] = "hasAddress"
  /\ mu.holder = "none"
  /\ cache' = maybeReload(cache, store)
  /\ pc' = [pc EXCEPT ![c] = IF hasAddress(cache', loc[c].key.Address)
                               THEN "maybeReload" ELSE "importKey"]
  /\ loc' = [loc EXCEPT ![c].a = IF hasAddress(cache', loc[c].key.Address)
                                   THEN @ ELSE EmptyAccount]
  /\ UNCHANGED <<store, last, hist, cx, mu, reg>>

\* ks.cache.maybeReload()
ImportMaybeReload(c) ==
  /\ pc[c] = "maybeReload"
  /\ mu.holder = "none"
  /\ cache' = maybeReload(cache, store)
  /\ mu' = [mu EXCEPT !.reloaded[c] = TRUE]
  /\ pc' = [pc EXCEPT ![c] = "Lock"]
  /\ UNCHANGED <<store, loc, last, hist, cx, reg>>

\* mutant: find is reached without the mutex
ImportLock_skipped(c) ==
  /\ pc[c] = "Lock"
  /\ pc' = [pc EXCEPT ![c] = "find"]
  /\ UNCHANGED <<store, cache, loc, last, hist, cx, mu, reg>>

\* ks.cache.mu.Lock()
ImportLock(c) ==
  /\ pc[c] = "Lock"
  /\ mu.holder = "none"
  /\ mu' = [mu EXCEPT !.holder = c]
  /\ pc' = [pc EXCEPT ![c] = "find"]
  /\ UNCHANGED <<store, cache, loc, last, hist, cx, reg>>

\* a, err := ks.cache.find(a)
ImportFind(c) ==
  /\ pc[c] = "find"
  /\ LET f == find(cache, loc[c].a)
     IN /\ loc' = [loc EXCEPT ![c].a = f.a]
        /\ mu' = [mu EXCEPT !.err[c] = f.err]
  /\ pc' = [pc EXCEPT ![c] = "Unlock"]
  /\ UNCHANGED <<store, cache, last, hist, cx, reg>>

\* ks.cache.mu.Unlock()
ImportUnlock(c) ==
  /\ pc[c] = "Unlock"
  /\ mu' = [mu EXCEPT !.holder = "none"]
  /\ pc' = [pc EXCEPT ![c] = "return"]
  /\ UNCHANGED <<store, cache, loc, last, hist, cx, reg>>

\* if err != nil { zeroKey(key.PrivateKey); return a, err }; return a, nil
ImportReturn(c) ==
  /\ pc[c] = "return"
  /\ UNCHANGED <<store, cache, hist, cx, mu, reg>>
  /\ last' = IF mu.err[c] # "nil"
               THEN Step("ImportExtendedKey", c, mu.err[c], loc[c].a, Zeroed(loc[c].key),
                         loc[c].ext, loc[c].auth, loc[c].auth0, FALSE)
               ELSE Step("ImportExtendedKey", c, "nil", loc[c].a, loc[c].key,
                         loc[c].ext, loc[c].auth, loc[c].auth0, FALSE)
  /\ pc' = [pc EXCEPT ![c] = "idle"]
  /\ loc' = [loc EXCEPT ![c] = NoLoc]

\* a key file is removed from the key directory; the cache is stale until reloaded
DirRemove(p) ==
  /\ p \in DOMAIN store
  /\ store' = [q \in DOMAIN store \ {p} |-> store[q]]
  /\ hist' = [hist EXCEPT !.incs = [q \in DOMAIN store \ {p} |-> hist.incs[q]]]
  /\ UNCHANGED <<cache, pc, loc, last, cx, mu, reg>>

NextCache ==
  \/ \E c \in Callers, extKey \in MasterKeys, p \in Passphrases, id \in Ids :
        ImportBegin(c, extKey, p, id)
  \/ \E c \in Callers : ImportHasAddress(c)
  \/ \E c \in Callers : ImportMaybeReload(c)
  \/ \E c \in Callers : ImportLock(c)
  \/ \E c \in Callers : ImportFind(c)
  \/ \E c \in Callers : ImportUnlock(c)
  \/ \E c \in Callers : ImportReturn(c)
  \/ \E c \in Callers, ok \in BOOLEAN, rnd \in VaultRnd :
        mu.holder = "none" /\ importKey(c, ok, rnd)
  \/ \E p \in Paths : DirRemove(p)

SpecCache == InitCache /\ [][NextCache]_vars

(***************************************************************************)
(* Register (topic_register.go).  reg.quit is r.quit: 0 is nil, n > 0 the  *)
(* n-th channel made; reg.closed holds the closed channels; reg.wg is the  *)
(* counter of r.wg; reg.gor lists the goroutines Start has launched, each  *)
(* "launched" (its body has not run), "registering" (inside RegisterTopic  *)
(* with the channel q it read from r.quit) or "exited" (after r.wg.Done);  *)
(* reg.stop is where each caller's Stop stands; reg.ev is the step taken.  *)
(***************************************************************************)
\* the topics a Register can be made with: NewResigter(topics...)
TopicLists == {[i \in 1..n |-> i] : n \in 0..MaxTopics}

Event(op, how, err) == [op |-> op, how |-> how, err |-> err]

InitRegister ==
  /\ store = <<>>
  /\ cache = {}
  /\ pc = [c \in Callers |-> "idle"]
  /\ loc = [c \in Callers |-> NoLoc]
  /\ last = [op |-> "none", err |-> "nil", a |-> EmptyAccount, key |-> NoKey,
             ext |-> NilKey, auth |-> 0, auth0 |-> 0, stored |-> FALSE,
             changed |-> FALSE, cacheChanged |-> FALSE]
  /\ hist = [mode |-> "race", overlapped |-> FALSE, incs |-> <<>>]
  /\ cx = NoCx
  /\ mu = NoMu
  /\ \E topics \in TopicLists : reg = [NoReg EXCEPT !.topics = topics]

\* Register.Start(server); discV5 tells whether server.DiscV5 is set.  The
\* goroutines are launched; their bodies run in GoRegister and GoExit.
Start(discV5) ==
  /\ ~reg.panicked
  /\ IF ~discV5
       THEN reg' = [reg EXCEPT !.ev = Event("Start", "", "ErrDiscv5NotRunning")]
       ELSE /\ reg.made < MaxStarts
            /\ reg' = [reg EXCEPT
                         !.quit = reg.made + 1,
                         !.made = reg.made + 1,
                         !.wg = @ + Len(reg.topics),
                         !.gor = @ \o [i \in 1..Len(reg.topics) |->
                                        [start |-> reg.made + 1, topic |-> reg.topics[i],
                                         st |-> "launched", q |-> 0]],
                         !.ev = Event("Start", "", "nil")]
  /\ UNCHANGED <<store, cache, pc, loc, last, hist, cx, mu>>

\* goroutine i enters server.DiscV5.RegisterTopic(t, r.quit): r.quit is read now
GoRegister(i) ==
  /\ ~reg.panicked
  /\ i \in DOMAIN reg.gor
  /\ reg.gor[i].st = "launched"
  /\ reg' = [reg EXCEPT !.gor[i].st = "registering", !.gor[i].q = reg.quit,
                        !.ev = Event("go.RegisterTopic", "", "nil")]
  /\ UNCHANGED <<store, cache, pc, loc, last, hist, cx, mu>>

\* RegisterTopic returns, its channel being closed, and goroutine i does r.wg.Done()
GoExit(i) ==
  /\ ~reg.panicked
  /\ i \in DOMAIN reg.gor
  /\ reg.gor[i].st = "registering"
  /\ reg.gor[i].q \in reg.closed
  /\ reg' = [reg EXCEPT !.gor[i].st = "exited", !.wg = @ - 1,
                        !.ev = Event("go.Done", "", "nil")]
  /\ UNCHANGED <<store, cache, pc, loc, last, hist, cx, mu>>

\* Register.Stop up to its close: the nil test and the select on r.quit
StopCheck(c) ==
  /\ ~reg.panicked
  /\ reg.stop[c] = "idle"
  /\ IF reg.quit = 0
       THEN reg' = [reg EXCEPT !.ev = Event("Stop", "nil", "nil")]
       ELSE IF reg.quit \in reg.closed
         THEN reg' = [reg EXCEPT !.ev = Event("Stop", "closed", "nil")]
         ELSE reg' = [reg EXCEPT !.stop[c] = "close", !.ev = Event("Stop.call", "", "nil")]
  /\ UNCHANGED <<store, cache, pc, loc, last, hist, cx, mu>>

\* close(r.quit): closing a closed channel panics
StopClose(c) ==
  /\ ~reg.panicked
  /\ reg.stop[c] = "close"
  /\ IF reg.quit \in reg.closed
       THEN reg' = [reg EXCEPT !.panicked = TRUE, !.ev = Event("Stop.close", "", "panic")]
       ELSE reg' = [reg EXCEPT !.closed = @ \cup {reg.quit}, !.stop[c] = "wait",
                              !.ev = Event("Stop.close", "", "nil")]
  /\ UNCHANGED <<store, cache, pc, loc, last, hist, cx, mu>>

\* r.wg.Wait() returns when the counter is 0, and Stop returns
StopWait(c) ==
  /\ ~reg.panicked
  /\ reg.stop[c] = "wait"
  /\ reg.wg = 0
  /\ reg' = [reg EXCEPT !.stop[c] = "idle", !.ev = Event("Stop", "waited", "nil")]
  /\ UNCHANGED <<store, cache, pc, loc, last, hist, cx, mu>>

Goroutines == 1..(MaxStarts * MaxTopics)

NextRegister ==
  \/ \E discV5 \in BOOLEAN : Start(discV5)
  \/ \E i \in Goroutines : GoRegister(i)
  \/ \E i \in Goroutines : GoExit(i)
  \/ \E c \in Callers : StopCheck(c)
  \/ \E c \in Callers : StopClose(c)
  \/ \E c \in Callers : StopWait(c)

SpecRegister == InitRegister /\ [][NextRegister]_vars

NoStopRunning == \A c \in Callers : reg.stop[c] = "idle"

\* Start and Stop are called one after the other; the goroutines run meanwhile
NextRegisterSeq ==
  \/ \E discV5 \in BOOLEAN : NoStopRunning /\ Start(discV5)
  \/ \E i \in Goroutines : GoRegister(i)
  \/ \E i \in Goroutines : GoExit(i)
  \/ \E c \in Callers : NoStopRunning /\ StopCheck(c)
  \/ \E c \in Callers : StopClose(c)
  \/ \E c \in Callers : StopWait(c)

\* sequential calls; the scheduler runs every goroutine and every Stop that
\* can take a step
SpecRegisterSeq ==
  /\ InitRegister
  /\ [][NextRegisterSeq]_vars
  /\ \A i \in Goroutines : WF_vars(GoRegister(i)) /\ WF_vars(GoExit(i))
  /\ \A c \in Callers : WF_vars(StopClose(c)) /\ WF_vars(StopWait(c))

(***************************************************************************)
(* Properties.                                                             *)
(***************************************************************************)
IndexOf(st, p) == st[p].SubAccountIndex

\* the blob's MAC is the one its ciphertext has under the key derived from auth
MacOK(blob, auth) == Keccak256(scryptKey(auth, blob.Salt).mac, blob.CipherText) = blob.MAC

ImportCalled(l) == l.op \in {"ImportExtendedKey", "ImportExtendedKey.call"}

\* C1, as stated: whenever a call ImportExtendedKey(K, P) follows a call
\* ImportExtendedKey(K, P) that has returned, both calls succeed and return
\* the same account, the second call performs no StoreKey and one file holds
\* the address.
C1_BothImportsSucceed ==
  [][(last.op = "ImportExtendedKey" /\ ImportCalled(last')
        /\ last'.ext = last.ext /\ last'.auth = last.auth)
       => /\ last.err = "nil"
          /\ last'.op = "ImportExtendedKey"
          /\ last'.err = "nil"
          /\ last'.a = last.a
          /\ ~last'.stored
          /\ Cardinality(FilesOf(store', last.a.Address)) = 1]_vars

\* C1, amended: whenever a call ImportExtendedKey(K, P) follows a call
\* ImportExtendedKey(K, P) that has succeeded, the second call succeeds too and
\* returns the same account (address and path), it performs no StoreKey, and
\* exactly one file holds the address afterwards.
C1_IdempotentImport ==
  [][(last.op = "ImportExtendedKey" /\ last.err = "nil" /\ ImportCalled(last')
        /\ last'.ext = last.ext /\ last'.auth = last.auth)
       => /\ last'.op = "ImportExtendedKey"
          /\ last'.err = "nil"
          /\ last'.a = last.a
          /\ last'.a.Path # <<>>
          /\ ~last'.stored
          /\ ~last'.changed
          /\ Cardinality(FilesOf(store', last.a.Address)) = 1]_vars

\* an import has returned the cached account of an address imported before
C1_Witness ==
  /\ last.op = "ImportExtendedKey"
  /\ last.err = "nil"
  /\ ~last.stored
  /\ last.a \in cache
  /\ Cardinality(FilesOf(store, last.a.Address)) = 1

\* C2: when calls do not overlap, the persisted subAccountIndex of every file
\* is its starting value (0, set by the import) plus the number of successful
\* IncSubAccountIndex calls on it.
C2_MonotonicCounter ==
  ~hist.overlapped =>
    \A p \in DOMAIN store :
      /\ IndexOf(store, p) = 0 + hist.incs[p]
      /\ \A auth \in Passphrases :
           DecryptKey(store[p], auth).err = "nil"
             => DecryptKey(store[p], auth).key.SubAccountIndex = hist.incs[p]

\* MaxIndex sequential increments of one file have succeeded
C2_Witness ==
  /\ ~hist.overlapped
  /\ last.op = "IncSubAccountIndex"
  /\ last.stored
  /\ \E p \in DOMAIN store : hist.incs[p] = MaxIndex /\ IndexOf(store, p) = MaxIndex

\* C3, as stated: no step of any execution, whichever callers take it, lowers
\* the persisted subAccountIndex of a file.
C3_IndexNeverDecreases ==
  [][\A p \in DOMAIN store : IndexOf(store', p) >= IndexOf(store, p)]_vars

\* C3, amended: as long as the calls on the key store have not overlapped (and
\* the index stays below its uint32 maximum, which IncSubAccountIndex's cap
\* MaxIndex keeps out of reach), no step removes a file or lowers its persisted
\* subAccountIndex.
C3_IndexNeverDecreasesSerialized ==
  [][~hist'.overlapped
       => \A p \in DOMAIN store :
            p \in DOMAIN store' /\ IndexOf(store', p) >= IndexOf(store, p)]_vars

\* an increment and then an Update have rewritten a file, no calls overlapping
C3_Witness ==
  /\ ~hist.overlapped
  /\ last.op = "Update"
  /\ last.stored
  /\ IndexOf(store, last.a.Path) > 0

IncFailedToDecrypt == last.op = "IncSubAccountIndex" /\ last.err \notin {"nil", "ErrStore"}

\* C4: an IncSubAccountIndex whose decryption of the record failed (wrong
\* passphrase, account not found) returns the error with no StoreKey done and
\* the key directory and the address cache as they were.
C4_IncFailsWithoutMutation ==
  IncFailedToDecrypt =>
    /\ ~last.stored
    /\ ~last.changed
    /\ ~last.cacheChanged
    /\ last.key = NoKey
    /\ \A p \in DOMAIN store : ~hist.overlapped => IndexOf(store, p) = hist.incs[p]

\* an increment of an existing file has failed on a wrong passphrase
C4_Witness ==
  /\ last.op = "IncSubAccountIndex"
  /\ last.err = "ErrDecrypt"
  /\ last.a.Path \in DOMAIN store

CryptoDecrypted == cx.phase = "decrypted"

ExtBlobEmpty == Len(cx.json.ExtendedKey.CipherText) = 0

\* C5, as stated: a blob made under passphrase P decrypts under no Q # P: the
\* result is ErrDecrypt and no plaintext; and DecryptKey returns a Key only
\* when both blobs of the record pass their MAC check, nil otherwise.
C5_WrongPassphraseNeverSucceeds ==
  CryptoDecrypted =>
    /\ (cx.damage = "none" /\ cx.auth2 # cx.auth)
         => cx.ext = [err |-> "ErrDecrypt", plain |-> <<>>]
    /\ cx.res.err = "nil"
         => MacOK(cx.json.Crypto, cx.auth2) /\ MacOK(cx.json.ExtendedKey, cx.auth2)
    /\ cx.res.err # "nil" => cx.res.key = NoKey

\* C5, amended: a blob with ciphertext made under passphrase P decrypts under
\* no Q # P (ErrDecrypt, no plaintext), and so does the record; DecryptKey
\* returns a Key only when the primary-key blob passes its MAC check and the
\* derivation-root blob is empty or passes its MAC check, nil otherwise.
C5_WrongPassphraseFailsOnCiphertext ==
  CryptoDecrypted =>
    /\ (cx.damage = "none" /\ cx.auth2 # cx.auth /\ ~ExtBlobEmpty)
         => cx.ext = [err |-> "ErrDecrypt", plain |-> <<>>]
    /\ (cx.damage = "none" /\ cx.auth2 # cx.auth)
         => cx.res = [err |-> "ErrDecrypt", key |-> NoKey]
    /\ cx.res.err = "nil"
         => /\ MacOK(cx.json.Crypto, cx.auth2)
            /\ ExtBlobEmpty \/ MacOK(cx.json.ExtendedKey, cx.auth2)
    /\ cx.res.err # "nil" => cx.res.key = NoKey

\* a derivation-root blob with ciphertext was refused under another passphrase
C5_Witness ==
  /\ CryptoDecrypted
  /\ cx.damage = "none"
  /\ cx.auth2 # cx.auth
  /\ ~ExtBlobEmpty
  /\ cx.ext.err = "ErrDecrypt"

\* C6: the blob EncryptExtendedKey makes of an extended key under P decrypts
\* under P to the key's canonical string, whatever salt and IV were drawn.
C6_RoundTrip ==
  (CryptoDecrypted /\ cx.damage = "none" /\ cx.auth2 = cx.auth
     /\ cx.key.ExtendedKey # NilKey)
    => /\ cx.ext = [err |-> "nil", plain |-> String(cx.key.ExtendedKey)]
       /\ cx.res.err = "nil"
       /\ cx.res.key.ExtendedKey = cx.key.ExtendedKey

\* a child key went through encryption with a non-zero salt and IV and back
C6_Witness ==
  /\ CryptoDecrypted
  /\ cx.damage = "none"
  /\ cx.auth2 = cx.auth
  /\ cx.key.ExtendedKey \in ChildKeys
  /\ cx.json.ExtendedKey.Salt > 0
  /\ cx.json.ExtendedKey.IV > 0
  /\ cx.ext.plain = String(cx.key.ExtendedKey)

UpdateReturned == last.op = "Update" /\ last.err = "nil"

\* C7: after a successful Update the file decrypts under the new passphrase to
\* the primary key, derivation root and subAccountIndex decrypted under the old
\* one, and no longer under the old passphrase when the two differ; an Update
\* whose decryption under the old passphrase failed leaves the file as it was.
C7_PassphraseRotation ==
  /\ UpdateReturned =>
       LET r == DecryptKey(store[last.a.Path], last.auth)
       IN /\ last.stored
          /\ r.err = "nil"
          /\ r.key.PrivateKey = last.key.PrivateKey
          /\ r.key.ExtendedKey = last.key.ExtendedKey
          /\ r.key.SubAccountIndex = last.key.SubAccountIndex
          /\ last.auth0 # last.auth
               => DecryptKey(store[last.a.Path], last.auth0).err = "ErrDecrypt"
  /\ (last.op = "Update" /\ last.err \notin {"nil", "ErrStore"})
       => ~last.stored /\ ~last.changed

\* an Update from one passphrase to another has succeeded on an incremented file
C7_Witness ==
  /\ UpdateReturned
  /\ last.auth0 # last.auth
  /\ last.key.SubAccountIndex > 0
  /\ last.key.PrivateKey \in PrivKeys

\* C8: when ImportExtendedKey or IncSubAccountIndex returns, the private key
\* it held is nil or zeroed.
C8_MemoryHygiene ==
  last.op \in {"ImportExtendedKey", "IncSubAccountIndex"}
    => last.key.PrivateKey \in {NilPriv, ZeroedPriv}

\* C9: a record whose derivation root is absent or the empty extended key has
\* an empty derivation-root blob after IncSubAccountIndex or Update has
\* decrypted and stored it again.
C9_EmptyKeyStaysEmptyBlob ==
  (last.op \in {"IncSubAccountIndex", "Update"} /\ last.stored
     /\ last.key.ExtendedKey \in {NilKey, ZeroedKey})
    => store[last.a.Path].ExtendedKey = EmptyBlob

\* C10: a derivation-root blob without ciphertext decrypts to the empty
\* extended key string under every passphrase, without error, whatever the
\* record's version and the blob's cipher and MAC are.
C10_EmptyBlobShortcut ==
  (CryptoDecrypted /\ ExtBlobEmpty)
    => cx.ext = [err |-> "nil", plain |-> EmptyExtendedKeyString]

\* an empty blob in a record of an unsupported version, under another passphrase
C10_Witness ==
  /\ CryptoDecrypted
  /\ ExtBlobEmpty
  /\ cx.damage = "version"
  /\ cx.auth2 # cx.auth
  /\ cx.ext.plain = EmptyExtendedKeyString
  /\ cx.res.err = "ErrVersion"

ImportDerived == ImportCalled(last) /\ last.err \in {"nil", "ErrStore"}

\* C11: the Key ImportExtendedKey makes of a master key (depth 0) has the
\* private key of the key's BIP44 child 0 and, as derivation root, its BIP44
\* child 1, which is another key than child 0; the Key it makes of a key of
\* another depth has that key itself as the source of the private key and as
\* derivation root, no child being derived.
C11_MasterAndNonMasterDerivation ==
  ImportDerived =>
    IF last.ext.depth = 0
      THEN /\ last.key.PrivateKey =
                ToECDSA([seed |-> last.ext.seed, depth |-> BIP44Depth, index |-> 0])
           /\ last.key.ExtendedKey =
                [seed |-> last.ext.seed, depth |-> BIP44Depth, index |-> 1]
           /\ ToECDSA(last.key.ExtendedKey) # last.key.PrivateKey
           /\ last.key.Address = PubkeyToAddress(last.key.PrivateKey)
      ELSE /\ last.key.PrivateKey = ToECDSA(last.ext)
           /\ last.key.ExtendedKey = last.ext
           /\ last.key.Address = PubkeyToAddress(last.key.PrivateKey)

\* the Key made of a master key has been stored
C11_Witness ==
  /\ last.op = "ImportExtendedKey"
  /\ last.stored
  /\ last.ext.depth = 0
  /\ last.key.ExtendedKey.index = 1
  /\ DecryptKey(store[last.a.Path], last.auth).key.ExtendedKey = last.key.ExtendedKey

LegacyDecrypted == CryptoDecrypted /\ cx.json.Version = legacyVersion

\* C12: a legacy (version 1) record as the legacy writer made it decrypts
\* under its passphrase to a Key with the record's primary key, the empty
\* extended key as derivation root and subAccountIndex 0; a legacy record
\* whose primary key does not decrypt (other passphrase, broken MAC) yields
\* ErrDecrypt and no Key.
C12_LegacyCompatibility ==
  LegacyDecrypted =>
    IF cx.auth2 = cx.auth /\ cx.damage # "primary"
      THEN /\ cx.res.err = "nil"
           /\ cx.res.key.PrivateKey = cx.key.PrivateKey
           /\ cx.res.key.Address = cx.key.Address
           /\ cx.res.key.ExtendedKey = ZeroedKey
           /\ String(cx.res.key.ExtendedKey) = EmptyExtendedKeyString
           /\ cx.res.key.SubAccountIndex = 0
      ELSE cx.res = [err |-> "ErrDecrypt", key |-> NoKey]

\* an undamaged legacy record has been decrypted under its passphrase
C12_Witness ==
  /\ LegacyDecrypted
  /\ cx.damage = "none"
  /\ cx.auth2 = cx.auth
  /\ cx.res.err = "nil"
  /\ cx.res.key.PrivateKey \in PrivKeys

\* caller c's IncSubAccountIndex returns from a StoreKey that succeeded
IncStored(c) == pc[c] = "IncStore" /\ pc'[c] = "idle" /\ last'.stored

\* C15: IncSubAccountIndex holds no lock between its decryption and its
\* StoreKey: every call that succeeds persists the index it read plus one,
\* whatever was persisted meanwhile, so of two overlapping calls that read the
\* same index both succeed and the index ends one higher; while calls have not
\* overlapped each success raises the persisted index by one, two calls by two.
C15_ConcurrentIncrementsRace ==
  [][\A c \in Callers :
       IncStored(c) =>
         LET p == loc[c].a.Path
         IN /\ last'.err = "nil"
            /\ IndexOf(store', p) = loc[c].key.SubAccountIndex + 1
            /\ ~hist'.overlapped
                 => /\ IndexOf(store', p) = IndexOf(store, p) + 1
                    /\ IndexOf(store', p) = hist'.incs[p]]_vars

\* a lost update: an overlapping IncSubAccountIndex has succeeded and the file
\* is as it was before its StoreKey, with the index another call had persisted
C15_Witness ==
  /\ hist.overlapped
  /\ last.op = "IncSubAccountIndex"
  /\ last.stored
  /\ ~last.changed
  /\ last.key.SubAccountIndex = 1
  /\ IndexOf(store, last.a.Path) = 1

\* C16: a successful IncSubAccountIndex, no other call running, raises the
\* persisted subAccountIndex of the file it read by exactly one and writes
\* that file; the record decrypts under the same passphrase to the id,
\* address, primary key and derivation root it had; no other file and no
\* cache entry changes, in either step of the call.
C16_FrameOfIncSubAccountIndex ==
  [][\A c \in Callers :
       /\ (pc[c] = "idle" /\ pc'[c] = "IncStore") => store' = store /\ cache' = cache
       /\ IncStored(c) =>
            LET p == loc[c].a.Path
                before == DecryptKey(store[p], loc[c].auth)
                after == DecryptKey(store'[p], loc[c].auth)
            IN /\ p \in DOMAIN store
               /\ DOMAIN store' = DOMAIN store
               /\ IndexOf(store', p) = IndexOf(store, p) + 1
               /\ before.err = "nil"
               /\ after.err = "nil"
               /\ after.key = [before.key EXCEPT !.SubAccountIndex = @ + 1]
               /\ \A q \in DOMAIN store \ {p} : store'[q] = store[q]
               /\ cache' = cache
               /\ last'.a = loc[c].a]_vars

\* the record of an extended key has been incremented beside another record
C16_Witness ==
  /\ ~hist.overlapped
  /\ last.op = "IncSubAccountIndex"
  /\ last.stored
  /\ last.key.ExtendedKey \in ChildKeys
  /\ Cardinality(DOMAIN store) = 2
  /\ IndexOf(store, last.a.Path) = 1

\* C20: of two overlapping ImportExtendedKey calls with one extended key only
\* one stores: at most one file and one cache entry hold an address.
C20_OneRecordPerAddress ==
  \A ad \in Addresses :
    /\ Cardinality(FilesOf(store, ad)) <= 1
    /\ Cardinality({a \in cache : a.Address = ad}) <= 1

Exited(i) == reg.gor[i].st = "exited"

\* a Stop called after a successful Start has returned
StopReturned == reg.ev.op = "Stop" /\ reg.ev.how \in {"closed", "waited"}

\* C14: whenever a Stop called after a successful Start returns, every
\* goroutine Start launched has exited; also a Stop called while another Stop
\* is in progress.
C14_StopJoinsAll == StopReturned => \A i \in DOMAIN reg.gor : Exited(i)

GoroutinesOf(k) == {i \in DOMAIN reg.gor : reg.gor[i].start = k}

\* C17: every successful Start has launched one goroutine per topic of the
\* Register, the goroutines of one Start that are registering were given one
\* channel, the counter Stop waits for is the number of goroutines launched
\* and not exited, and as long as no Start has succeeded nothing is launched
\* and quit is nil.
C17_OneLifecyclePerTopic ==
  /\ \A k \in 1..reg.made :
       /\ Cardinality(GoroutinesOf(k)) = Len(reg.topics)
       /\ \A t \in DOMAIN reg.topics :
            Cardinality({i \in GoroutinesOf(k) : reg.gor[i].topic = reg.topics[t]}) = 1
       /\ \A i, j \in GoroutinesOf(k) :
            (reg.gor[i].st # "launched" /\ reg.gor[j].st # "launched")
              => reg.gor[i].q = reg.gor[j].q
  /\ reg.wg = Cardinality({i \in DOMAIN reg.gor : ~Exited(i)})
  /\ reg.made = 0 => reg.quit = 0 /\ reg.gor = <<>> /\ reg.wg = 0 /\ reg.closed = {}

\* C18: no execution closes a closed quit channel.
C18_QuitClosedAtMostOnce == ~reg.panicked

\* C19: with Start and Stop called one after the other in any order, and the
\* goroutines and the Stops scheduled, every Stop that has begun returns.
C19_StopTerminates ==
  \A c \in Callers : (reg.stop[c] # "idle") ~> (reg.stop[c] = "idle")

\* C13: in ImportExtendedKey's already-imported path the cache is read by
\* find only after maybeReload has run in the call; maybeReload has completed
\* before the mutex is taken (the caller does not hold it while reloading);
\* find runs with the mutex held by its caller; and the mutex is released
\* before the call returns, whether find found the account or failed.
C13_ReloadLockFindOrder ==
  \A c \in Callers :
    /\ pc[c] \in {"Lock", "find", "Unlock"} => mu.reloaded[c]
    /\ pc[c] \in {"find", "Unlock"} => mu.holder = c
    /\ pc[c] \in {"hasAddress", "maybeReload", "Lock"} => mu.holder # c
    /\ pc[c] \in {"return", "idle", "importKey"} => mu.holder # c

\* find has failed and its caller is about to return, the mutex released
C13_Witness ==
  \E c \in Callers :
    /\ pc[c] = "return"
    /\ mu.err[c] # "nil"
    /\ mu.reloaded[c]
    /\ mu.holder = "none"

=============================================================================
